---- MODULE Spec2Model ----
(***************************************************************************)
(* Workshop booking server (Express + better-sqlite3 + in-memory maps).    *)
(*                                                                         *)
(* Every route handler is an `async` function without a single `await`,    *)
(* and better-sqlite3 is synchronous: a handler runs to completion inside  *)
(* one turn of the Node event loop.  Concurrent requests are therefore     *)
(* served as whole handlers in some order, and each handler is one action. *)
(* The setInterval callback is one action as well.                         *)
(*                                                                         *)
(* Identifiers: users and workshops are named by their index in the order  *)
(* of creation (user 1 is the seeded admin, workshop 1 the seeded          *)
(* workshop); an index beyond the number created is an id the database     *)
(* does not hold.  A row id that the code sets to String(Date.now()) is    *)
(* only ever compared, by the PRIMARY KEY check of a later INSERT, with    *)
(* the String(Date.now()) of that INSERT; the clock never runs backwards,  *)
(* so a row keeps the one bit `idIsNow`: its id is the current             *)
(* millisecond.  crypto.randomBytes(32) and crypto.randomUUID() are fresh  *)
(* values.                                                                 *)
(***************************************************************************)
EXTENDS Integers, FiniteSets, Sequences, TLC

\* ---------------------------------------------------------------- bounds
MaxUsers == 2
MaxWorkshops == 2
MaxTotalSeats == 2
MaxEpochs == 2
MaxDay == 1
MaxTokens == 3
MaxClients == 2
MaxDisplays == 2

\* ------------------------------------------------------ program constants
SeedAvailableSeats == 8
SeedTotalSeats == 15
SeedDate == 0
UserTokenMs == 30000
WorkshopTokenMinMs == 10000
WorkshopTokenSpanMs == 20000
PurgeIntervalMs == 30000

VARIABLES
    now,            \* Date.now(), in ms since the server started
    today,          \* the calendar day of `new Date()`, in days since the seed date
    nUsers,         \* rows of table users (user 1 = admin-1)
    workshops,      \* table workshops, in order of insertion
    reservations,   \* table reservations
    attendance,     \* table attendance
    qrTokens,       \* the in-memory Map token -> {userId, workshopId, expiresAt}
    qr_tokens,      \* table qr_tokens
    nextToken,      \* how many random tokens have been drawn
    resp,           \* what the handler that ran in this step answered
    sseClients,     \* the Set of open /events responses
    broken,         \* responses of sseClients whose write() throws
    adminQR,        \* the state of each AdminQRDisplay component
    userQR,         \* the state of the UserQRCode component of user 1
    sent,           \* what broadcastEvent wrote in this step, in order
    accepted,       \* history: per token, the number of successful check-ins
    issued,         \* history: per token, the flow and the workshop it was issued for
    undo            \* history: a Reserve directly followed by its Cancel

vars == <<now, today, nUsers, workshops, reservations, attendance, qrTokens,
          qr_tokens, nextToken, resp, sseClients, broken, adminQR, userQR, sent,
          accepted, issued, undo>>

UserIds == 1..MaxUsers
WorkshopIds == 1..MaxWorkshops
TokenIds == 1..MaxTokens
DisplayIds == 1..MaxDisplays

\* Every open AdminQRDisplay may draw one token more than MaxTokens.
AllTokenIds == 1..(MaxTokens + MaxDisplays)
TokenLimit == MaxTokens + Cardinality({d \in DisplayIds : adminQR[d].open})
ClientIds == 1..MaxClients

\* A response: the status and, on success, the fields of the JSON body that
\* the model follows.  An error response carries its error kind only.
NoResp == [op |-> "none", status |-> "none", userId |-> 0, workshopId |-> 0,
           token |-> 0, seats |-> 0, expiresAt |-> 0, newToken |-> 0]

Failure(op, status) == [NoResp EXCEPT !.op = op, !.status = status]

\* A token that has not been drawn yet.
NotIssued == [kind |-> "none", workshopId |-> 0]

NoUndo == [stage |-> 0, userId |-> 0, workshopId |-> 0, seats |-> <<>>, pairs |-> {}]

\* ------------------------------------------------------------- the tables
UserExists(u) == u <= nUsers

WorkshopExists(w) == w <= Len(workshops)

\* mutant: the lookup of an existing reservation never finds a row
HasReservationNever(u, w) ==
    FALSE

HasReservation(u, w) ==
    \E r \in reservations : r.userId = u /\ r.workshopId = w

ReservationsOf(w) == {r \in reservations : r.workshopId = w}

ReservedPairs == {<<r.userId, r.workshopId>> : r \in reservations}

SeatVector == [w \in 1..Len(workshops) |-> workshops[w].availableSeats]

\* wsDate < startOfToday
IsExpired(ws) == ws.date < today

\* mutant: the capacity check lets a workshop without seats through
IsFullBelowZero(ws) == ws.availableSeats < 0

\* workshop.availableSeats <= 0
IsFull(ws) == ws.availableSeats <= 0

\* mutant: the reservation is inserted and the seat is not taken
SeatsAfterReserveNone(n) == n

\* mutant: the reservation takes two seats
SeatsAfterReserveTwice(n) == n - 2

\* UPDATE workshops SET availableSeats=availableSeats-1
SeatsAfterReserve(n) == n - 1

\* mutants: the cancellation gives two seats back, or none
SeatsAfterCancelTwice(n) == n + 2

SeatsAfterCancelNone(n) == n

\* UPDATE workshops SET availableSeats=availableSeats+1
SeatsAfterCancel(n) == n + 1

\* INSERT INTO reservations with id = String(Date.now()): id is the PRIMARY
\* KEY, (userId, workshopId) is UNIQUE
ReservationInsertFails(u, w) ==
    \/ \E r \in reservations : r.idIsNow
    \/ HasReservation(u, w)

\* AdminQRDisplay before it is opened: no QR, no request, no event handled.
ClosedDisplay ==
    [open |-> FALSE, heard |-> 0, pending |-> FALSE, arriving |-> 0, shown |-> 0]

\* UserQRCode before it is mounted: qrData "" and expiresAt 0.
Unmounted ==
    [mounted |-> FALSE, pending |-> FALSE, arriving |-> 0, arrivingExpiresAt |-> 0,
     shown |-> 0, expiresAt |-> 0]

\* ------------------------------------------------------------------ Init
SeedWorkshop ==
    [idIsNow |-> FALSE, date |-> SeedDate,
     availableSeats |-> SeedAvailableSeats, totalSeats |-> SeedTotalSeats]

Init ==
    /\ now = 0
    /\ today = SeedDate
    /\ nUsers = 1
    /\ workshops = <<SeedWorkshop>>
    /\ reservations = {}
    /\ attendance = {}
    /\ qrTokens = {}
    /\ qr_tokens = {}
    /\ nextToken = 0
    /\ resp = NoResp
    /\ sseClients = {}
    /\ broken = {}
    /\ sent = <<>>
    /\ adminQR = [d \in DisplayIds |-> ClosedDisplay]
    /\ userQR = Unmounted
    /\ accepted = [t \in AllTokenIds |-> 0]
    /\ issued = [t \in AllTokenIds |-> NotIssued]
    /\ undo = NoUndo

\* ----------------------------------------------------------------- clock
\* Rows written in an earlier millisecond no longer hold the current id.
Aged(rows) == {[r EXCEPT !.idIsNow = FALSE] : r \in rows}

\* Date.now() advances by one period of the purge timer: handlers that run
\* with no Wait between them run in the same millisecond.
Wait ==
    /\ now \div PurgeIntervalMs < MaxEpochs
    /\ now' = now + PurgeIntervalMs
    /\ workshops' = [w \in 1..Len(workshops) |-> [workshops[w] EXCEPT !.idIsNow = FALSE]]
    /\ reservations' = Aged(reservations)
    /\ attendance' = Aged(attendance)
    /\ undo' = undo
    /\ resp' = NoResp
    /\ sent' = <<>>
    /\ UNCHANGED <<sseClients, broken, adminQR, userQR, issued, today, nUsers, qrTokens, qr_tokens, nextToken,
                   accepted>>

\* The calendar date of `new Date()` changes.
Midnight ==
    /\ today < MaxDay
    /\ today' = today + 1
    /\ resp' = NoResp
    /\ sent' = <<>>
    /\ UNCHANGED <<sseClients, broken, adminQR, userQR, issued, now, nUsers, workshops, reservations, attendance, qrTokens,
                   qr_tokens, nextToken, accepted, undo>>

\* ------------------------------------------------------------- /register
Register ==
    /\ nUsers < MaxUsers
    /\ nUsers' = nUsers + 1
    /\ resp' = [NoResp EXCEPT !.op = "register", !.userId = nUsers + 1, !.status = "ok"]
    /\ undo' = NoUndo
    /\ sent' = <<>>
    /\ UNCHANGED <<sseClients, broken, adminQR, userQR, issued, now, today, workshops, reservations, attendance, qrTokens,
                   qr_tokens, nextToken, accepted>>

\* ------------------------------------------------------- POST /workshops
CreateWorkshop(total, date) ==
    /\ Len(workshops) < MaxWorkshops
    /\ \A i \in 1..Len(workshops) : ~workshops[i].idIsNow
    /\ workshops' = Append(workshops,
           [idIsNow |-> TRUE, date |-> date, availableSeats |-> total, totalSeats |-> total])
    /\ resp' = [NoResp EXCEPT !.op = "createWorkshop", !.workshopId = Len(workshops) + 1,
                              !.status = "ok", !.seats = total]
    /\ undo' = NoUndo
    /\ sent' = <<>>
    /\ UNCHANGED <<sseClients, broken, adminQR, userQR, issued, now, today, nUsers, reservations, attendance, qrTokens,
                   qr_tokens, nextToken, accepted>>

\* ---------------------------------------------------- POST /reservations
\* mutant: the existing reservation is looked up before the capacity check
ReserveOutcomeReservedFirst(u, w) ==
    IF ~UserExists(u) \/ ~WorkshopExists(w) THEN "NotFound"
    ELSE IF IsExpired(workshops[w]) THEN "Expired"
    ELSE IF HasReservation(u, w) THEN "AlreadyReserved"
    ELSE IF IsFull(workshops[w]) THEN "Full"
    ELSE IF ReservationInsertFails(u, w) THEN "threw"
    ELSE "ok"

ReserveOutcome(u, w) ==
    IF ~UserExists(u) \/ ~WorkshopExists(w) THEN "NotFound"
    ELSE IF IsExpired(workshops[w]) THEN "Expired"
    ELSE IF IsFull(workshops[w]) THEN "Full"
    ELSE IF HasReservation(u, w) THEN "AlreadyReserved"
    ELSE IF ReservationInsertFails(u, w) THEN "threw"
    ELSE "ok"

Reserve(u, w) ==
    LET outcome == ReserveOutcome(u, w)
    IN  /\ IF outcome = "ok"
           THEN /\ reservations' = reservations \cup
                        {[idIsNow |-> TRUE, userId |-> u, workshopId |-> w]}
                /\ workshops' = [workshops EXCEPT
                        ![w].availableSeats = SeatsAfterReserve(@)]
                /\ undo' = [stage |-> 1, userId |-> u, workshopId |-> w,
                            seats |-> SeatVector, pairs |-> ReservedPairs]
           ELSE /\ UNCHANGED <<reservations, workshops>>
                /\ undo' = NoUndo
        /\ resp' = IF outcome = "ok"
                   THEN [NoResp EXCEPT !.op = "reserve", !.status = "ok", !.userId = u,
                            !.workshopId = w, !.seats = workshops'[w].availableSeats]
                   ELSE Failure("reserve", outcome)
        /\ sent' = <<>>
        /\ UNCHANGED <<sseClients, broken, adminQR, userQR, issued, now, today, nUsers, attendance, qrTokens, qr_tokens,
                       nextToken, accepted>>

\* -------------------------------------------------- DELETE /reservations
\* mutant: the DELETE removes every reservation of the user
ReservationsAfterCancelByUser(u, w) ==
    {r \in reservations : r.userId # u}

\* DELETE FROM reservations WHERE id=? with the id of the row of (u,w)
ReservationsAfterCancel(u, w) ==
    {r \in reservations : ~(r.userId = u /\ r.workshopId = w)}

CancelOutcome(u, w) ==
    IF ~HasReservation(u, w) THEN "NotFound" ELSE "ok"

\* mutant: the cancellation also deletes the attendance row of the pair
AttendanceAfterCancelCascade(u, w) ==
    {a \in attendance : ~(a.userId = u /\ a.workshopId = w)}

\* The transaction deletes from reservations only: table attendance has no
\* foreign key to reservations and stays as it is.
AttendanceAfterCancel(u, w) ==
    attendance

Cancel(u, w) ==
    LET outcome == CancelOutcome(u, w)
    IN  /\ IF outcome = "ok"
           THEN /\ reservations' = ReservationsAfterCancel(u, w)
                /\ attendance' = AttendanceAfterCancel(u, w)
                /\ workshops' = [workshops EXCEPT
                        ![w].availableSeats = SeatsAfterCancel(@)]
                /\ undo' = IF undo.stage = 1 /\ undo.userId = u /\ undo.workshopId = w
                           THEN [undo EXCEPT !.stage = 2]
                           ELSE NoUndo
           ELSE /\ UNCHANGED <<reservations, workshops, attendance>>
                /\ undo' = NoUndo
        /\ resp' = IF outcome = "ok"
                   THEN [NoResp EXCEPT !.op = "cancel", !.status = "ok", !.userId = u,
                            !.workshopId = w, !.seats = workshops'[w].availableSeats]
                   ELSE Failure("cancel", outcome)
        /\ sent' = <<>>
        /\ UNCHANGED <<sseClients, broken, adminQR, userQR, issued, now, today, nUsers, qrTokens, qr_tokens,
                       nextToken, accepted>>

\* ------------------------------------------------ /events, broadcastEvent
\* mutant: the payload is written to no client
broadcastEventToNone(event, u, w, newToken) ==
    [event |-> event, userId |-> u, workshopId |-> w, newToken |-> newToken,
     to |-> {}]

\* mutant: the first write that throws ends the loop and the broadcast
broadcastEventUncaught(event, u, w, newToken) ==
    [event |-> event, userId |-> u, workshopId |-> w, newToken |-> newToken,
     to |-> IF broken = {} THEN sseClients ELSE {}]

\* One payload written to every client of sseClients, each write in its own
\* try/catch: `to` holds the clients whose write went through.  The payload
\* keeps the fields of the data object that the model follows (0: the field
\* is absent).
broadcastEvent(event, u, w, newToken) ==
    [event |-> event, userId |-> u, workshopId |-> w, newToken |-> newToken,
     to |-> sseClients \ broken]

\* mutant: a new client is first sent the attendance events of the past
ConnectWritesReplay(c) ==
    [i \in 1..Cardinality(attendance) |->
        [event |-> "attendance", userId |-> 0, workshopId |-> 0, newToken |-> 0,
         to |-> {c}]]

\* What GET /events writes to the body of the new response: the headers are
\* flushed and no event is written.
ConnectWrites(c) ==
    <<>>

\* GET /events: the response is added to sseClients and left open.
Connect(c) ==
    /\ c \notin sseClients
    /\ sseClients' = sseClients \cup {c}
    /\ resp' = [NoResp EXCEPT !.op = "events", !.status = "ok"]
    /\ sent' = ConnectWrites(c)
    /\ undo' = NoUndo
    /\ UNCHANGED <<adminQR, userQR, broken, now, today, nUsers, workshops, reservations, attendance,
                   qrTokens, qr_tokens, nextToken, accepted, issued>>

\* mutant: the close callback leaves the response in the Set
ClientsAfterCloseKept(c) ==
    sseClients

ClientsAfterClose(c) ==
    sseClients \ {c}

\* req.on("close"): the response leaves sseClients.
Disconnect(c) ==
    /\ c \in sseClients
    /\ sseClients' = ClientsAfterClose(c)
    /\ broken' = broken \ {c}
    /\ resp' = NoResp
    /\ sent' = <<>>
    /\ undo' = NoUndo
    /\ UNCHANGED <<adminQR, userQR, now, today, nUsers, workshops, reservations, attendance, qrTokens,
                   qr_tokens, nextToken, accepted, issued>>

\* What this step wrote to the response of client c, in the order of the
\* client.write calls.
Delivered(c) ==
    LET Reached(e) == c \in e.to
    IN  SelectSeq(sent, Reached)

\* The socket of an open response fails before its close callback has run:
\* from now on client.write(payload) throws for it.
Break(c) ==
    /\ c \in sseClients \ broken
    /\ broken' = broken \cup {c}
    /\ resp' = NoResp
    /\ sent' = <<>>
    /\ undo' = NoUndo
    /\ UNCHANGED <<sseClients, adminQR, userQR, now, today, nUsers, workshops, reservations, attendance,
                   qrTokens, qr_tokens, nextToken, accepted, issued>>

\* ------------------------------------------------------ token helpers
\* mutant: the lookup of an existing attendance never finds a row
HasAttendanceNever(u, w) ==
    FALSE

HasAttendance(u, w) ==
    \E a \in attendance : a.userId = u /\ a.workshopId = w

\* mutant: no token is ever found expired
TokenExpiredNever(expiresAt, t) == FALSE

\* data.expiresAt < now  (both flows compare strictly)
TokenExpired(expiresAt, t) == expiresAt < t

\* Math.random() * 20000 + 10000 lies in [10000, 30000); the stored text
\* String(expiresAt) is only ever read through parseInt and through a text
\* comparison with String(now), and for an integer `now` both agree with
\* comparing the integer part, so a lifetime is kept as its integer part.
\* mutant: the random part of the lifetime can exceed its span
WorkshopLifetimesLong ==
    {WorkshopTokenMinMs, WorkshopTokenMinMs + WorkshopTokenSpanMs + 1}

WorkshopLifetimes ==
    {WorkshopTokenMinMs, WorkshopTokenMinMs + WorkshopTokenSpanMs - 1}

\* ------------------------------------------------------ POST /qr/generate
\* The handler, as it acts on the server.
GenerateUserHandler(u, w) ==
    LET token == nextToken + 1
        expiresAt == now + UserTokenMs
    IN  IF ~HasReservation(u, w)
        THEN /\ resp' = Failure("generate", "NoReservation")
             /\ undo' = NoUndo
             /\ sent' = <<>>
             /\ UNCHANGED <<sseClients, broken, issued, now, today, nUsers, workshops, reservations,
                            attendance,
                            qrTokens, qr_tokens, nextToken, accepted>>
        ELSE /\ nextToken < TokenLimit
             /\ nextToken' = token
             /\ qrTokens' = qrTokens \cup
                    {[token |-> token, userId |-> u, workshopId |-> w,
                      expiresAt |-> expiresAt]}
             /\ resp' = [NoResp EXCEPT !.op = "generate", !.userId = u,
                            !.workshopId = w, !.status = "ok", !.token = token,
                            !.expiresAt = expiresAt]
             /\ issued' = [issued EXCEPT ![token] =
                    [kind |-> "user", workshopId |-> w]]
             /\ undo' = NoUndo
             /\ sent' = <<>>
             /\ UNCHANGED <<sseClients, broken, now, today, nUsers, workshops, reservations,
                            attendance, qr_tokens, accepted>>

\* A request that comes from no component of the model.
GenerateUser(u, w) ==
    GenerateUserHandler(u, w) /\ UNCHANGED <<adminQR, userQR>>

\* ------------------------------------------------------ POST /qr/validate
\* The in-memory entry is deleted on TokenExpired, on AlreadyCheckedIn and on
\* success, and left in place when the handler returns or throws earlier.
ValidateUserDeletes(outcome) ==
    outcome \in {"TokenExpired", "AlreadyCheckedIn", "ok"}

\* mutant: the attendance row is inserted before the expiry check returns
InsertsAttendanceAlsoExpired(outcome) ==
    outcome \in {"ok", "TokenExpired"}

\* The INSERT INTO attendance is reached only when no check has returned and
\* it takes effect only when it does not throw.
InsertsAttendance(outcome) ==
    outcome = "ok"

\* mutant: the existing attendance row is not looked up
ValidateUserOutcomeNoAttendanceCheck(t) ==
    IF ~\E d \in qrTokens : d.token = t THEN "InvalidToken"
    ELSE LET d == CHOOSE d \in qrTokens : d.token = t
         IN  IF TokenExpired(d.expiresAt, now) THEN "TokenExpired"
             ELSE IF ~UserExists(d.userId) THEN "NotFound"
             ELSE IF \E a \in attendance : a.idIsNow THEN "threw"
             ELSE "ok"

ValidateUserOutcome(t) ==
    IF ~\E d \in qrTokens : d.token = t THEN "InvalidToken"
    ELSE LET d == CHOOSE d \in qrTokens : d.token = t
         IN  IF TokenExpired(d.expiresAt, now) THEN "TokenExpired"
             ELSE IF ~UserExists(d.userId) THEN "NotFound"
             ELSE IF HasAttendance(d.userId, d.workshopId) THEN "AlreadyCheckedIn"
             ELSE IF \E a \in attendance : a.idIsNow THEN "threw"
             ELSE "ok"

ValidateUser(t) ==
    LET outcome == ValidateUserOutcome(t)
        stored == {d \in qrTokens : d.token = t}
        u == IF stored = {} THEN 0 ELSE (CHOOSE d \in stored : TRUE).userId
        w == IF stored = {} THEN 0 ELSE (CHOOSE d \in stored : TRUE).workshopId
    IN  /\ attendance' = IF InsertsAttendance(outcome)
                         THEN attendance \cup {[idIsNow |-> TRUE, userId |-> u, workshopId |-> w]}
                         ELSE attendance
        /\ qrTokens' = IF ValidateUserDeletes(outcome) THEN qrTokens \ stored ELSE qrTokens
        /\ accepted' = IF outcome = "ok" THEN [accepted EXCEPT ![t] = @ + 1] ELSE accepted
        /\ resp' = IF outcome = "ok"
                   THEN [NoResp EXCEPT !.op = "validate", !.status = "ok", !.token = t,
                            !.userId = u, !.workshopId = w]
                   ELSE Failure("validate", outcome)
        /\ sent' = IF outcome = "ok"
                   THEN <<broadcastEvent("attendance", u, w, 0)>>
                   ELSE <<>>
        /\ undo' = NoUndo
        /\ UNCHANGED <<sseClients, broken, adminQR, userQR, issued, now, today, nUsers, workshops, reservations,
                       qr_tokens, nextToken>>

\* --------------------------------------------- POST /qr/generate-workshop
\* INSERT INTO qr_tokens (token, workshopId, createdAt, expiresAt): the column
\* used takes its DEFAULT FALSE
NewTokenRow(token, w, expiresAt) ==
    [token |-> token, workshopId |-> w, expiresAt |-> expiresAt, used |-> FALSE]

\* mutant: the cleanup empties the table
TokensAfterCleanupAll(w) ==
    {}

\* mutant: the cleanup deletes nothing
TokensAfterCleanupNone(w) ==
    qr_tokens

\* mutant: the cleanup deletes the expired rows only
TokensAfterCleanupExpiredOnly(w) ==
    {q \in qr_tokens : ~TokenExpired(q.expiresAt, now)}

\* DELETE FROM qr_tokens WHERE expiresAt < ? OR workshopId = ?
TokensAfterCleanup(w) ==
    {q \in qr_tokens : ~(TokenExpired(q.expiresAt, now) \/ q.workshopId = w)}

\* The handler, as it acts on the server.
GenerateWorkshopHandler(w, life) ==
    LET token == nextToken + 1
        expiresAt == now + life
    IN  IF ~WorkshopExists(w)
        THEN /\ resp' = Failure("generateWorkshop", "NotFound")
             /\ undo' = NoUndo
             /\ sent' = <<>>
             /\ UNCHANGED <<sseClients, broken, issued, now, today, nUsers, workshops, reservations,
                            attendance,
                            qrTokens, qr_tokens, nextToken, accepted>>
        ELSE /\ nextToken < TokenLimit
             /\ nextToken' = token
             /\ qr_tokens' = TokensAfterCleanup(w)
                    \cup {NewTokenRow(token, w, expiresAt)}
             /\ resp' = [NoResp EXCEPT !.op = "generateWorkshop", !.workshopId = w,
                            !.status = "ok", !.token = token]
             /\ issued' = [issued EXCEPT ![token] =
                    [kind |-> "workshop", workshopId |-> w]]
             /\ undo' = NoUndo
             /\ sent' = <<>>
             /\ UNCHANGED <<sseClients, broken, now, today, nUsers, workshops, reservations,
                            attendance, qrTokens, accepted>>

\* A request that comes from no component of the model.
GenerateWorkshop(w, life) ==
    GenerateWorkshopHandler(w, life) /\ UNCHANGED <<adminQR, userQR>>

\* --------------------------------------------- POST /qr/validate-workshop
\* mutant: the accepted token is not marked used
MarkUsedNot(q) == q

\* UPDATE qr_tokens SET used = TRUE WHERE token = ?
MarkUsed(q) == [q EXCEPT !.used = TRUE]

\* mutant: the token is looked up without its workshop
FindWorkshopTokenAnyWorkshop(t, w) ==
    {q \in qr_tokens : q.token = t}

\* SELECT * FROM qr_tokens WHERE token=? AND workshopId=?
FindWorkshopToken(t, w) ==
    {q \in qr_tokens : q.token = t /\ q.workshopId = w}

\* mutant: the expiry of the token is checked before its used flag
ValidateWorkshopOutcomeExpiryFirst(t, w, u) ==
    IF ~UserExists(u) THEN "NotFound"
    ELSE IF ~HasReservation(u, w) THEN "NoReservation"
    ELSE IF FindWorkshopToken(t, w) = {} THEN "InvalidToken"
    ELSE LET q == CHOOSE q \in FindWorkshopToken(t, w) : TRUE
         IN  IF TokenExpired(q.expiresAt, now) THEN "TokenExpired"
             ELSE IF q.used THEN "AlreadyUsed"
             ELSE IF HasAttendance(u, w) THEN "AlreadyCheckedIn"
             ELSE "ok"

ValidateWorkshopOutcome(t, w, u) ==
    IF ~UserExists(u) THEN "NotFound"
    ELSE IF ~HasReservation(u, w) THEN "NoReservation"
    ELSE IF FindWorkshopToken(t, w) = {} THEN "InvalidToken"
    ELSE LET q == CHOOSE q \in FindWorkshopToken(t, w) : TRUE
         IN  IF q.used THEN "AlreadyUsed"
             ELSE IF TokenExpired(q.expiresAt, now) THEN "TokenExpired"
             ELSE IF HasAttendance(u, w) THEN "AlreadyCheckedIn"
             ELSE "ok"

\* mutant: the check-in publishes the attendance event only
CheckInBroadcastsAttendanceOnly(u, w, newToken) ==
    <<broadcastEvent("attendance", u, w, 0)>>

\* broadcastEvent("attendance", ...) and then broadcastEvent("qr_used", ...)
\* mutant: the rotation is broadcast before the attendance
CheckInBroadcastsRotationFirst(u, w, newToken) ==
    <<broadcastEvent("qr_used", 0, w, newToken), broadcastEvent("attendance", u, w, 0)>>

CheckInBroadcasts(u, w, newToken) ==
    <<broadcastEvent("attendance", u, w, 0),
      broadcastEvent("qr_used", 0, w, newToken)>>

ValidateWorkshop(t, w, u, life) ==
    LET outcome == ValidateWorkshopOutcome(t, w, u)
        newToken == nextToken + 1
        newExpiresAt == now + life
    IN  IF outcome = "ok"
        THEN /\ nextToken < TokenLimit
             /\ nextToken' = newToken
             /\ attendance' = attendance \cup
                    {[idIsNow |-> FALSE, userId |-> u, workshopId |-> w]}
             /\ qr_tokens' =
                    {IF q.token = t THEN MarkUsed(q) ELSE q : q \in qr_tokens}
                    \cup {NewTokenRow(newToken, w, newExpiresAt)}
             /\ accepted' = [accepted EXCEPT ![t] = @ + 1]
             /\ resp' = [NoResp EXCEPT !.op = "validateWorkshop", !.status = "ok",
                            !.token = t, !.userId = u, !.workshopId = w,
                            !.newToken = newToken, !.expiresAt = newExpiresAt]
             /\ issued' = [issued EXCEPT ![newToken] =
                    [kind |-> "workshop", workshopId |-> w]]
             /\ sent' = CheckInBroadcasts(u, w, newToken)
             /\ undo' = NoUndo
             /\ UNCHANGED <<sseClients, broken, adminQR, userQR, now, today, nUsers, workshops, reservations, qrTokens>>
        ELSE /\ life = WorkshopTokenMinMs
             /\ qr_tokens' = IF outcome = "TokenExpired"
                             THEN {q \in qr_tokens : q.token # t}
                             ELSE qr_tokens
             /\ resp' = Failure("validateWorkshop", outcome)
             /\ undo' = NoUndo
             /\ sent' = <<>>
             /\ UNCHANGED <<sseClients, broken, adminQR, userQR, issued, now, today, nUsers, workshops, reservations,
                            attendance,
                            qrTokens, nextToken, accepted>>

\* ------------------------------------------ setInterval(..., 30000) purge
Purge ==
    /\ qrTokens' = {d \in qrTokens : ~TokenExpired(d.expiresAt, now)}
    /\ resp' = NoResp
    /\ sent' = <<>>
    /\ UNCHANGED <<sseClients, broken, adminQR, userQR, issued, now, today, nUsers, workshops, reservations,
                            attendance,
                   qr_tokens, nextToken, accepted, undo>>

\* ------------------------------------------------------- AdminQRDisplay
\* Every AdminQRDisplay of the model shows the seeded workshop.
RECURSIVE QrUsedFrom(_)
QrUsedFrom(t) ==
    IF t > MaxTokens + MaxDisplays THEN 0
    ELSE (IF issued[t].kind = "workshop" THEN accepted[t] ELSE 0) + QrUsedFrom(t + 1)

\* How many qr_used events of the seeded workshop have been broadcast.
QrUsedCount == QrUsedFrom(1)

\* A client-side step: no handler of the server runs.
NoHandlerRuns ==
    /\ resp' = NoResp
    /\ sent' = <<>>
    /\ undo' = NoUndo
    /\ UNCHANGED <<now, today, nUsers, workshops, reservations, attendance, qrTokens,
                   qr_tokens, nextToken, broken, accepted, issued>>

\* The dialog opens: generateQR() is called and the EventSource connects.
OpenDisplay(d) ==
    /\ ~adminQR[d].open
    /\ adminQR' = [adminQR EXCEPT ![d] =
           [open |-> TRUE, heard |-> QrUsedCount, pending |-> TRUE,
            arriving |-> 0, shown |-> 0]]
    /\ sseClients' = sseClients \cup {d}
    /\ NoHandlerRuns
    /\ UNCHANGED userQR

\* The qr_used listener runs for the next event of the stream and calls
\* generateQR(); the generateQR it closed over has generating = false.
OnQrUsed(d) ==
    /\ adminQR[d].open
    /\ adminQR[d].heard < QrUsedCount
    /\ adminQR' = [adminQR EXCEPT ![d].heard = @ + 1, ![d].pending = TRUE]
    /\ NoHandlerRuns
    /\ UNCHANGED <<sseClients, userQR>>

\* The Refresh button: generateQR() returns at once while generating.
Refresh(d) ==
    /\ adminQR[d].open
    /\ ~adminQR[d].pending /\ adminQR[d].arriving = 0
    /\ adminQR' = [adminQR EXCEPT ![d].pending = TRUE]
    /\ NoHandlerRuns
    /\ UNCHANGED <<sseClients, userQR>>

\* The server handles the POST /qr/generate-workshop of generateQR() and the
\* response leaves for the display.
ServeDisplay(d) ==
    /\ adminQR[d].pending
    /\ GenerateWorkshopHandler(1, WorkshopTokenMinMs)
    /\ adminQR' = [adminQR EXCEPT ![d].pending = FALSE, ![d].arriving = nextToken + 1]
    /\ UNCHANGED userQR

\* The response arrives: setQrData with the QR of response.token.
RenderDisplay(d) ==
    /\ adminQR[d].arriving # 0
    /\ adminQR' = [adminQR EXCEPT ![d].shown = adminQR[d].arriving, ![d].arriving = 0]
    /\ NoHandlerRuns
    /\ UNCHANGED <<sseClients, userQR>>

\* The Copy Data button: handleCopyQR() posts /qr/generate-workshop itself and
\* writes the new token to the clipboard; qrData is not set.
CopyData(d) ==
    /\ adminQR[d].open
    /\ GenerateWorkshop(1, WorkshopTokenMinMs)

\* An attendee scans the QR that a display shows.
ScanDisplay(d, u) ==
    /\ adminQR[d].open
    /\ adminQR[d].shown # 0
    /\ ValidateWorkshop(adminQR[d].shown, 1, u, WorkshopTokenMinMs)

\* The token a display shows is one /qr/validate-workshop accepts: stored for
\* the workshop, not used and not expired.
DisplayShowsLive(d) ==
    \E q \in qr_tokens :
        /\ q.token = adminQR[d].shown /\ q.workshopId = 1
        /\ ~q.used /\ ~TokenExpired(q.expiresAt, now)

\* The display waits for a token the bounded server can no longer issue.
DisplayStarved(d) == adminQR[d].pending /\ nextToken >= TokenLimit

\* ------------------------------------------------------------ UserQRCode
\* The component of user 1 for the seeded workshop.
RefreshMarginMs == 1000

\* Math.max(0, expiresAt - now)
Remaining == IF userQR.expiresAt - now > 0 THEN userQR.expiresAt - now ELSE 0

\* mutant: the timer asks for a new token only after the remaining time is
\* below zero
NeedsRefreshBelowZero(remaining) == remaining < 0

\* remaining <= 1000
NeedsRefresh(remaining) == remaining <= RefreshMarginMs

\* The component mounts with a session: generateQR() is called.
MountUserQR ==
    /\ ~userQR.mounted
    /\ userQR' = [userQR EXCEPT !.mounted = TRUE, !.pending = TRUE]
    /\ NoHandlerRuns
    /\ UNCHANGED <<sseClients, adminQR>>

\* The server handles the POST /qr/generate of generateQR(); the response
\* leaves for the component, or the error is shown and nothing else changes.
ServeUserQR ==
    /\ userQR.pending
    /\ GenerateUserHandler(1, 1)
    /\ userQR' = IF HasReservation(1, 1)
                 THEN [userQR EXCEPT !.pending = FALSE, !.arriving = nextToken + 1,
                                     !.arrivingExpiresAt = now + UserTokenMs]
                 ELSE [userQR EXCEPT !.pending = FALSE]
    /\ UNCHANGED adminQR

\* The response arrives: setQrData and setExpiresAt.
RenderUserQR ==
    /\ userQR.arriving # 0
    /\ userQR' = [userQR EXCEPT !.shown = userQR.arriving,
                                !.expiresAt = userQR.arrivingExpiresAt,
                                !.arriving = 0, !.arrivingExpiresAt = 0]
    /\ NoHandlerRuns
    /\ UNCHANGED <<sseClients, adminQR>>

\* The one-second interval, installed once expiresAt is set, calls
\* generateQR() when the remaining time is at most one second.
TickUserQR ==
    /\ userQR.mounted
    /\ userQR.expiresAt # 0
    /\ NeedsRefresh(Remaining)
    /\ ~userQR.pending
    /\ userQR' = [userQR EXCEPT !.pending = TRUE]
    /\ NoHandlerRuns
    /\ UNCHANGED <<sseClients, adminQR>>

\* The component waits for a token the bounded server can no longer issue.
UserQRStarved == userQR.pending /\ nextToken >= TokenLimit

\* The expiry times a shown token can have reached within the clock's bound.
UserQRExpiries == {k * UserTokenMs : k \in 1..MaxEpochs}

\* An organiser scans the QR that the component shows.
ScanUserQR ==
    /\ userQR.shown # 0
    /\ ValidateUser(userQR.shown)

\* ------------------------------------------------------------------ Next
ClockStep == Wait \/ Midnight

AccountStep ==
    \/ Register
    \/ \E total \in 1..MaxTotalSeats, date \in {today - 1, today} :
           CreateWorkshop(total, date)

LedgerStep ==
    \/ \E u \in UserIds, w \in WorkshopIds : Reserve(u, w)
    \/ \E u \in UserIds, w \in WorkshopIds : Cancel(u, w)

TokenStep ==
    \/ \E u \in UserIds, w \in WorkshopIds : GenerateUser(u, w)
    \/ \E t \in TokenIds : ValidateUser(t)
    \/ \E w \in WorkshopIds, life \in WorkshopLifetimes : GenerateWorkshop(w, life)
    \/ \E t \in TokenIds, w \in WorkshopIds, u \in UserIds, life \in WorkshopLifetimes :
           ValidateWorkshop(t, w, u, life)
    \/ Purge

EventStep ==
    \/ \E c \in ClientIds : Connect(c)
    \/ \E c \in ClientIds : Disconnect(c)

FailureStep == \E c \in ClientIds : Break(c)

DisplayStep ==
    \/ \E d \in DisplayIds : OpenDisplay(d)
    \/ \E d \in DisplayIds : OnQrUsed(d)
    \/ \E d \in DisplayIds : Refresh(d)
    \/ \E d \in DisplayIds : ServeDisplay(d)
    \/ \E d \in DisplayIds : RenderDisplay(d)
    \/ \E d \in DisplayIds : CopyData(d)
    \/ \E d \in DisplayIds, u \in UserIds : ScanDisplay(d, u)

UserQRStep ==
    \/ MountUserQR
    \/ ServeUserQR
    \/ RenderUserQR
    \/ TickUserQR
    \/ ScanUserQR

Next ==
    \/ ClockStep \/ AccountStep \/ LedgerStep \/ TokenStep \/ EventStep \/ FailureStep
    \/ DisplayStep \/ UserQRStep

Spec == Init /\ [][Next]_vars

\* The seat ledger with its clock: the handlers that write workshops and
\* reservations.  No other handler writes either table.
NextLedger ==
    \/ Wait
    \/ Midnight
    \/ AccountStep
    \/ LedgerStep

SpecLedger == Init /\ [][NextLedger]_vars

\* The check-in flows over the seeded workshop.
NextCheckIn ==
    \/ Wait
    \/ Register
    \/ \E u \in UserIds : Reserve(u, 1)
    \/ \E u \in UserIds : Cancel(u, 1)
    \/ TokenStep

SpecCheckIn == Init /\ [][NextCheckIn]_vars

\* The check-in flows of one user over two workshops.
NextTwoWorkshops ==
    \/ Wait
    \/ CreateWorkshop(MaxTotalSeats, today)
    \/ \E w \in WorkshopIds : Reserve(1, w)
    \/ TokenStep

SpecTwoWorkshops == Init /\ [][NextTwoWorkshops]_vars

\* The check-in flows over the seeded workshop with subscribers of /events
\* coming and going; every workshop token draws the shortest lifetime.
NextEvents ==
    \/ Wait
    \/ Register
    \/ \E u \in UserIds : Reserve(u, 1)
    \/ EventStep
    \/ \E u \in UserIds : GenerateUser(u, 1)
    \/ \E t \in TokenIds : ValidateUser(t)
    \/ GenerateWorkshop(1, WorkshopTokenMinMs)
    \/ \E t \in TokenIds, u \in UserIds : ValidateWorkshop(t, 1, u, WorkshopTokenMinMs)

SpecEvents == Init /\ [][NextEvents]_vars

\* Every handler of one user over the seeded workshop, with subscribers of
\* /events coming, going and failing.
NextBroadcast ==
    \/ Wait
    \/ Reserve(1, 1)
    \/ Cancel(1, 1)
    \/ GenerateUser(1, 1)
    \/ \E t \in TokenIds : ValidateUser(t)
    \/ GenerateWorkshop(1, WorkshopTokenMinMs)
    \/ \E t \in TokenIds : ValidateWorkshop(t, 1, 1, WorkshopTokenMinMs)
    \/ Purge
    \/ EventStep
    \/ FailureStep

SpecBroadcast == Init /\ [][NextBroadcast]_vars

\* The check-in flows of one user under the schedule of the server: time
\* passes and the interval timer keeps firing, whatever requests arrive.
NextReclaim ==
    \/ Wait
    \/ Purge
    \/ Reserve(1, 1)
    \/ GenerateUser(1, 1)
    \/ \E t \in TokenIds : ValidateUser(t)
    \/ GenerateWorkshop(1, WorkshopTokenMinMs)
    \/ \E t \in TokenIds : ValidateWorkshop(t, 1, 1, WorkshopTokenMinMs)

SpecReclaim ==
    Init /\ [][NextReclaim]_vars /\ WF_vars(Wait) /\ WF_vars(Purge)

\* The AdminQRDisplay dialogs of the seeded workshop and the attendee who
\* scans them.  The browser runs every listener and every arrived response,
\* and the server answers every request; clicks and scans come when they come.
NextDisplays ==
    \/ Reserve(1, 1)
    \/ \E d \in DisplayIds : OpenDisplay(d)
    \/ \E d \in DisplayIds : OnQrUsed(d)
    \/ \E d \in DisplayIds : Refresh(d)
    \/ \E d \in DisplayIds : ServeDisplay(d)
    \/ \E d \in DisplayIds : RenderDisplay(d)
    \/ \E d \in DisplayIds : CopyData(d)
    \/ \E d \in DisplayIds : ScanDisplay(d, 1)

SpecDisplays ==
    /\ Init /\ [][NextDisplays]_vars
    /\ \A d \in DisplayIds :
          /\ WF_vars(OnQrUsed(d))
          /\ WF_vars(ServeDisplay(d))
          /\ WF_vars(RenderDisplay(d))

\* The UserQRCode component of user 1 with the clock, the purge and the
\* organiser who scans it.  The interval timer keeps firing, the server
\* answers every request and the browser runs every arrived response.
NextUserQR ==
    \/ Wait
    \/ Purge
    \/ Reserve(1, 1)
    \/ MountUserQR
    \/ ServeUserQR
    \/ RenderUserQR
    \/ TickUserQR
    \/ ScanUserQR

SpecUserQR ==
    /\ Init /\ [][NextUserQR]_vars
    /\ WF_vars(TickUserQR) /\ WF_vars(ServeUserQR) /\ WF_vars(RenderUserQR)

\* ======================================================== the seat ledger

\* C1: in every reachable state every workshop has
\* 0 <= availableSeats <= totalSeats.
C1_SeatsWithinTotal ==
    \A w \in 1..Len(workshops) :
        /\ 0 <= workshops[w].availableSeats
        /\ workshops[w].availableSeats <= workshops[w].totalSeats

\* A Reserve has just taken the last seat of a workshop.
C1_Witness ==
    /\ resp.op = "reserve" /\ resp.status = "ok"
    /\ workshops[resp.workshopId].availableSeats = 0
    /\ \E v \in UserIds : v # resp.userId /\ HasReservation(v, resp.workshopId)

\* C2: after every Reserve or Cancel that completes, the workshop's
\* availableSeats equals its totalSeats minus the number of reservations
\* stored for it.
C2_SeatsEqualTotalMinusReservations ==
    (resp.op \in {"reserve", "cancel"} /\ resp.status = "ok") =>
        workshops[resp.workshopId].availableSeats =
            workshops[resp.workshopId].totalSeats
                - Cardinality(ReservationsOf(resp.workshopId))

\* C3: a Reserve succeeds only when it read availableSeats >= 1, and it
\* leaves exactly one seat fewer, so of any number of Reserve requests served
\* for a workshop with k seats at most k succeed; and while availableSeats
\* is 0 every Reserve of a known user for the (unexpired) workshop fails Full.
C3_NoOverbooking ==
    /\ [][\A u \in UserIds, w \in WorkshopIds :
            (resp'.op = "reserve" /\ resp'.status = "ok" /\ Reserve(u, w)) =>
                /\ workshops[w].availableSeats >= 1
                /\ workshops'[w].availableSeats = workshops[w].availableSeats - 1
                /\ workshops'[w].availableSeats >= 0]_vars
    /\ [](\A u \in UserIds, w \in WorkshopIds :
            (/\ UserExists(u) /\ WorkshopExists(w)
             /\ ~(workshops[w].date < today)
             /\ workshops[w].availableSeats = 0) => ReserveOutcome(u, w) = "Full")
    /\ [][\A u \in UserIds, w \in WorkshopIds :
            (/\ resp'.op = "reserve" /\ Reserve(u, w)
             /\ UserExists(u) /\ WorkshopExists(w)
             /\ ~(workshops[w].date < today)
             /\ workshops[w].availableSeats = 0) => resp'.status = "Full"]_vars

\* Scenario A: a workshop of one seat is taken, and a Reserve was answered Full.
C3_Witness ==
    /\ resp.op = "reserve" /\ resp.status = "Full"
    /\ \E w \in 1..Len(workshops) :
          /\ workshops[w].totalSeats = 1
          /\ workshops[w].availableSeats = 0
          /\ Cardinality(ReservationsOf(w)) = 1
          /\ ~(workshops[w].date < today)

\* C4: there is at most one reservation per (user, workshop) pair.
C4_OneReservationPerPair ==
    \A r1 \in reservations, r2 \in reservations :
        (r1.userId = r2.userId /\ r1.workshopId = r2.workshopId) => r1 = r2

\* A second Reserve of a pair that holds a reservation was refused.
C4_Witness ==
    /\ resp.op = "reserve" /\ resp.status = "AlreadyReserved"
    /\ Cardinality(reservations) = 2

\* C5: a successful Reserve(w,u) adds exactly one reservation, the one of
\* (u,w), and takes exactly one seat of w and of no other workshop, in one
\* step; the availableSeats it returns is the earlier value minus 1.
C5_ReserveIsOneAtomicUnit ==
    [][\A u \in UserIds, w \in WorkshopIds :
          (resp'.op = "reserve" /\ resp'.status = "ok" /\ Reserve(u, w)) =>
              /\ ~HasReservation(u, w)
              /\ Cardinality(reservations') = Cardinality(reservations) + 1
              /\ \A r \in reservations' \ reservations :
                     r.userId = u /\ r.workshopId = w
              /\ reservations \subseteq reservations'
              /\ \A x \in 1..Len(workshops) :
                     workshops'[x].availableSeats =
                         workshops[x].availableSeats - (IF x = w THEN 1 ELSE 0)
              /\ resp'.seats = workshops[w].availableSeats - 1]_vars

\* A Reserve has succeeded on a workshop that already held a reservation.
C5_Witness ==
    /\ resp.op = "reserve" /\ resp.status = "ok"
    /\ Cardinality(ReservationsOf(resp.workshopId)) = 2
    /\ resp.seats = workshops[resp.workshopId].availableSeats

\* C6: Reserve(w,u) fails NotFound if the user or the workshop is unknown,
\* Expired if the workshop's date is before today, Full if availableSeats is
\* 0, AlreadyReserved if (u,w) holds a reservation, and succeeds when none of
\* the four holds.
C6_ReserveFailsOnlyForTheFourReasons ==
    [][\A u \in UserIds, w \in WorkshopIds :
          (resp'.op = "reserve" /\ Reserve(u, w)) =>
              LET unknown == ~UserExists(u) \/ ~WorkshopExists(w)
                  expired == ~unknown /\ workshops[w].date < today
                  full == ~unknown /\ workshops[w].availableSeats = 0
                  dup == HasReservation(u, w)
              IN  /\ unknown => resp'.status = "NotFound"
                  /\ resp'.status = "NotFound" => unknown
                  /\ resp'.status = "Expired" => expired
                  /\ resp'.status = "Full" => full
                  /\ resp'.status = "AlreadyReserved" => dup
                  /\ (expired \/ full \/ dup) =>
                         resp'.status \in {"Expired", "Full", "AlreadyReserved"}
                  /\ ~(unknown \/ expired \/ full \/ dup) => resp'.status = "ok"]_vars

\* C7: Cancel(w,u) fails NotFound exactly when (u,w) holds no reservation;
\* otherwise it deletes that reservation and no other and gives one seat back
\* to w, in one step, and availableSeats does not exceed totalSeats.
C7_CancelIsOneAtomicUnit ==
    [][\A u \in UserIds, w \in WorkshopIds :
          (resp'.op = "cancel" /\ Cancel(u, w)) =>
              IF ~HasReservation(u, w)
              THEN /\ resp'.status = "NotFound"
                   /\ UNCHANGED <<reservations, workshops>>
              ELSE /\ resp'.status = "ok"
                   /\ reservations' \subseteq reservations
                   /\ Cardinality(reservations') = Cardinality(reservations) - 1
                   /\ \A r \in reservations \ reservations' :
                          r.userId = u /\ r.workshopId = w
                   /\ \A x \in 1..Len(workshops) :
                          workshops'[x].availableSeats =
                              workshops[x].availableSeats + (IF x = w THEN 1 ELSE 0)
                   /\ workshops'[w].availableSeats <= workshops'[w].totalSeats
                   /\ resp'.seats = workshops[w].availableSeats + 1]_vars

\* A Cancel has given the only taken seat of a workshop back while another
\* workshop stays reserved.
C7_Witness ==
    /\ resp.op = "cancel" /\ resp.status = "ok"
    /\ workshops[resp.workshopId].availableSeats = workshops[resp.workshopId].totalSeats
    /\ reservations # {}

\* C8: a Reserve(w,u) directly followed by Cancel(w,u) leaves every
\* workshop's availableSeats and the set of reserved pairs as they were before
\* the Reserve, and Reserve(w,u) then succeeds again unless the workshop has
\* expired.
C8_ReserveThenCancelRestores ==
    undo.stage = 2 =>
        /\ SeatVector = undo.seats
        /\ ReservedPairs = undo.pairs
        /\ ~(workshops[undo.workshopId].date < today) =>
               ReserveOutcome(undo.userId, undo.workshopId) = "ok"

\* A Reserve and its Cancel have run in the same millisecond as another
\* user's reservation is held.
C8_Witness ==
    /\ undo.stage = 2
    /\ resp.op = "cancel" /\ resp.status = "ok"
    /\ reservations # {}
    /\ ~(workshops[undo.workshopId].date < today)

\* ============================================================== check-in

\* C9: a token accepted by one successful check-in, of either flow, is never
\* accepted by a later one: over its lifetime a token is accepted at most once.
C9_TokenAcceptedAtMostOnce ==
    \A t \in TokenIds : accepted[t] <= 1

\* A workshop token has been accepted once, is still stored, and a later
\* check-in was answered AlreadyUsed.
C9_Witness ==
    /\ resp.op = "validateWorkshop" /\ resp.status = "AlreadyUsed"
    /\ \E q \in qr_tokens : q.used /\ accepted[q.token] = 1

\* C10: of two check-ins that present the same valid token exactly one
\* succeeds: the one served first succeeds, and the one served after a
\* success fails AlreadyUsed or InvalidToken; never do both succeed.
C10_ExactlyOneCheckInSucceeds ==
    /\ [][\A t \in TokenIds :
            (resp'.op = "validate" /\ ValidateUser(t)) =>
                /\ (\E d \in qrTokens :
                        /\ d.token = t
                        /\ ~(d.expiresAt < now)
                        /\ ~HasAttendance(d.userId, d.workshopId))
                       => resp'.status = "ok"
                /\ accepted[t] >= 1 => resp'.status \in {"AlreadyUsed", "InvalidToken"}
                /\ accepted'[t] <= 1]_vars
    /\ [][\A t \in TokenIds, w \in WorkshopIds, u \in UserIds, life \in WorkshopLifetimes :
            (resp'.op = "validateWorkshop" /\ ValidateWorkshop(t, w, u, life)) =>
                /\ (/\ UserExists(u) /\ HasReservation(u, w) /\ ~HasAttendance(u, w)
                    /\ \E q \in qr_tokens :
                          /\ q.token = t /\ q.workshopId = w
                          /\ ~q.used /\ ~(q.expiresAt < now))
                       => resp'.status = "ok"
                /\ (accepted[t] >= 1 /\ UserExists(u) /\ HasReservation(u, w))
                       => resp'.status \in {"AlreadyUsed", "InvalidToken"}
                /\ accepted'[t] <= 1]_vars

\* C11: a check-in that presents a token after its expiresAt is answered
\* TokenExpired, whatever ran since the token expired: after any step other
\* than a check-in, a stored, unconsumed token that was already past its
\* expiresAt is still answered TokenExpired (in the workshop flow, for every
\* user who holds a reservation).
C11_ExpiredTokenAlwaysFailsExpired ==
    /\ [][\A t \in TokenIds :
            (/\ resp'.op # "validate"
             /\ \E d \in qrTokens : d.token = t /\ d.expiresAt < now)
                => ValidateUserOutcome(t)' = "TokenExpired"]_vars
    /\ [][\A t \in TokenIds, w \in WorkshopIds, u \in UserIds :
            (/\ resp'.op # "validateWorkshop"
             /\ \E q \in qr_tokens :
                   q.token = t /\ q.workshopId = w /\ ~q.used /\ q.expiresAt < now
             /\ UserExists(u)' /\ HasReservation(u, w)')
                => ValidateWorkshopOutcome(t, w, u)' = "TokenExpired"]_vars

\* C12: a token is never valid again after it expired or was consumed: a
\* check-in is accepted only for a stored token that is not past its
\* expiresAt (and, in the workshop flow, not used), attendance is recorded
\* only by an accepted check-in, no step raises the expiresAt of a stored
\* token or clears its used flag, and a token that has left its store never
\* returns to it.
C12_NoTokenResurrection ==
    [][/\ \A t \in TokenIds :
            accepted'[t] > accepted[t] =>
                \/ \E d \in qrTokens : d.token = t /\ ~(d.expiresAt < now)
                \/ \E q \in qr_tokens : q.token = t /\ ~q.used /\ ~(q.expiresAt < now)
       /\ {<<a.userId, a.workshopId>> : a \in attendance'}
              # {<<a.userId, a.workshopId>> : a \in attendance} =>
               \E t \in TokenIds : accepted'[t] > accepted[t]
       /\ \A d \in qrTokens, e \in qrTokens' :
               d.token = e.token => e.expiresAt <= d.expiresAt
       /\ \A q \in qr_tokens, r \in qr_tokens' :
               q.token = r.token => r.expiresAt <= q.expiresAt /\ (q.used => r.used)
       /\ \A t \in 1..nextToken :
               (~\E d \in qrTokens \cup qr_tokens : d.token = t)
                   => ~\E e \in qrTokens' \cup qr_tokens' : e.token = t]_vars

\* A check-in that presented an expired workshop token was refused while a
\* used token of an earlier check-in is still stored.
C12_Witness ==
    /\ resp.op = "validateWorkshop" /\ resp.status = "TokenExpired"
    /\ \E q \in qr_tokens : q.used /\ accepted[q.token] = 1

\* C13: in every reachable state each workshop has at most one stored
\* workshop token that is both unused and not past its expiresAt.
C13_AtMostOneLiveTokenPerWorkshop ==
    \A q \in qr_tokens, r \in qr_tokens :
        (/\ q.workshopId = r.workshopId
         /\ ~q.used /\ ~(q.expiresAt < now)
         /\ ~r.used /\ ~(r.expiresAt < now)) => q = r

\* A check-in has rotated the token of a workshop: the used row and the new
\* live row are both stored, next to a live token of the other workshop.
C13_Witness ==
    /\ resp.op = "validateWorkshop" /\ resp.status = "ok"
    /\ \E q \in qr_tokens, r \in qr_tokens, o \in qr_tokens :
          /\ q.token = resp.token /\ q.used
          /\ r.token = resp.newToken /\ ~r.used /\ ~(r.expiresAt < now)
          /\ r.workshopId = q.workshopId
          /\ o.workshopId # q.workshopId /\ ~o.used /\ ~(o.expiresAt < now)

\* C14: when /qr/generate-workshop issues T2 for workshop W, every token
\* issued for W before it is no longer stored and never stored again, so a
\* user who holds a reservation for W is answered InvalidToken when
\* presenting it; and such a user who has not checked in is accepted with T2.
C14_SecondIssuanceInvalidatesFirst ==
    /\ [][\A w \in WorkshopIds, life \in WorkshopLifetimes, u \in UserIds :
            (/\ resp'.op = "generateWorkshop" /\ resp'.status = "ok"
             /\ GenerateWorkshop(w, life)
             /\ UserExists(u) /\ HasReservation(u, w)) =>
                /\ \A t1 \in TokenIds :
                       (issued[t1].kind = "workshop" /\ issued[t1].workshopId = w)
                           => ValidateWorkshopOutcome(t1, w, u)' = "InvalidToken"
                /\ \A t2 \in TokenIds :
                       (resp'.token = t2 /\ ~HasAttendance(u, w))
                           => ValidateWorkshopOutcome(t2, w, u)' = "ok"]_vars
    /\ [][\A t1 \in TokenIds :
            (/\ issued[t1].kind = "workshop"
             /\ ~\E q \in qr_tokens : q.token = t1)
                => ~\E q \in qr_tokens' : q.token = t1]_vars

\* Scenario C: T1 and T2 were issued for one workshop in the same
\* millisecond, T1 is gone unconsumed, and a check-in with T2 has succeeded.
C14_Witness ==
    /\ now = 0
    /\ resp.op = "validateWorkshop" /\ resp.status = "ok" /\ resp.token = 2
    /\ issued[1].kind = "workshop" /\ issued[1].workshopId = resp.workshopId
    /\ issued[2].kind = "workshop" /\ issued[2].workshopId = resp.workshopId
    /\ accepted[1] = 0
    /\ ~\E q \in qr_tokens : q.token = 1

C16_OneAttendancePerPair ==
    /\ [](\A a \in attendance, b \in attendance :
            (a.userId = b.userId /\ a.workshopId = b.workshopId) => a = b)
    /\ [](\A t \in TokenIds, w \in WorkshopIds, u \in UserIds :
            HasAttendance(u, w) => ValidateWorkshopOutcome(t, w, u) # "ok")
    /\ [](\A d \in qrTokens :
            HasAttendance(d.userId, d.workshopId) => ValidateUserOutcome(d.token) # "ok")
    /\ [][/\ (resp'.op \in {"validate", "validateWorkshop"} /\ resp'.status = "ok") =>
                /\ ~HasAttendance(resp'.userId, resp'.workshopId)
                /\ Cardinality(attendance') = Cardinality(attendance) + 1
          /\ (resp'.op \in {"validate", "validateWorkshop"} /\ resp'.status # "ok") =>
                attendance' = attendance]_vars

\* Both users are checked in, and a user-flow check-in for a pair that is
\* already checked in was answered AlreadyCheckedIn.
C16_Witness ==
    /\ resp.op = "validate" /\ resp.status = "AlreadyCheckedIn"
    /\ Cardinality(attendance) = 2

\* C17: a check-in for a pair that holds no reservation at check-in time
\* fails NoReservation, in the workshop flow and in the user flow, and an
\* accepted check-in is always for a pair whose reservation exists.
C17_CheckInRequiresReservation ==
    /\ [](\A t \in TokenIds, w \in WorkshopIds, u \in UserIds :
            (UserExists(u) /\ ~HasReservation(u, w))
                => ValidateWorkshopOutcome(t, w, u) = "NoReservation")
    /\ [](\A d \in qrTokens :
            ~HasReservation(d.userId, d.workshopId)
                => ValidateUserOutcome(d.token) = "NoReservation")
    /\ [][(resp'.op \in {"validate", "validateWorkshop"} /\ resp'.status = "ok")
              => HasReservation(resp'.userId, resp'.workshopId)]_vars

\* C18: when a check-in is answered AlreadyCheckedIn, the token it presented
\* is consumed: presented again, by any user (in the workshop flow, any user
\* who holds a reservation), it is answered AlreadyUsed or InvalidToken.
C18_AlreadyCheckedInConsumesToken ==
    /\ [][\A t \in TokenIds :
            (/\ resp'.op = "validate" /\ resp'.status = "AlreadyCheckedIn"
             /\ ValidateUser(t))
                => ValidateUserOutcome(t)' \in {"AlreadyUsed", "InvalidToken"}]_vars
    /\ [][\A t \in TokenIds, w \in WorkshopIds, u \in UserIds, v \in UserIds,
             life \in WorkshopLifetimes :
            (/\ resp'.op = "validateWorkshop" /\ resp'.status = "AlreadyCheckedIn"
             /\ ValidateWorkshop(t, w, u, life)
             /\ UserExists(v)' /\ HasReservation(v, w)')
                => ValidateWorkshopOutcome(t, w, v)' \in {"AlreadyUsed", "InvalidToken"}]_vars

\* C19: a successful check-in of either flow publishes exactly one
\* attendance event, carrying the userId and workshopId of the attendance
\* row it inserted, to every client that is subscribed; no other step, a
\* failing check-in and a connecting subscriber included, publishes an
\* attendance event.
C19_OneAttendanceEventPerCheckIn ==
    [][LET published == {i \in 1..Len(sent') : sent'[i].event = "attendance"}
           checkedIn == /\ resp'.op \in {"validate", "validateWorkshop"}
                        /\ resp'.status = "ok"
       IN  /\ checkedIn =>
                 /\ Cardinality(published) = 1
                 /\ \A i \in published :
                        /\ sent'[i].userId = resp'.userId
                        /\ sent'[i].workshopId = resp'.workshopId
                        /\ sent'[i].to = sseClients
                        /\ \E a \in attendance' :
                               /\ a.userId = sent'[i].userId
                               /\ a.workshopId = sent'[i].workshopId
                               /\ ~HasAttendance(a.userId, a.workshopId)
                 /\ sseClients' = sseClients
           /\ ~checkedIn => published = {}]_vars

\* Scenario E: one client is subscribed, the other is not, and a check-in
\* has just published its attendance event to the subscribed one.
C19_Witness ==
    /\ resp.op = "validate" /\ resp.status = "ok"
    /\ Cardinality(sseClients) = 1
    /\ Len(sent) = 1
    /\ sent[1].event = "attendance" /\ sent[1].to = sseClients
    /\ sent[1].userId = resp.userId /\ sent[1].workshopId = resp.workshopId

\* C20: a successful workshop check-in for W stores a fresh token for W,
\* unused and unexpired, which a user with a reservation and no attendance
\* is accepted with; it returns that token with its expiresAt, and publishes
\* one qr_used event (the rotation event: it carries newToken) for W to the
\* subscribed clients.  A user check-in draws no token, stores none and
\* publishes no qr_used event.
C20_WorkshopCheckInRotatesToken ==
    [][LET rotations == {i \in 1..Len(sent') : sent'[i].event = "qr_used"}
       IN  /\ (resp'.op = "validateWorkshop" /\ resp'.status = "ok") =>
                 /\ issued[resp'.newToken].kind = "none"
                 /\ \E q \in qr_tokens' \ qr_tokens :
                        /\ q.token = resp'.newToken
                        /\ q.workshopId = resp'.workshopId
                        /\ ~q.used /\ ~(q.expiresAt < now)
                        /\ q.expiresAt = resp'.expiresAt
                 /\ \A t \in TokenIds, w \in WorkshopIds, v \in UserIds :
                        (/\ t = resp'.newToken /\ w = resp'.workshopId
                         /\ UserExists(v) /\ HasReservation(v, w)
                         /\ ~HasAttendance(v, w)')
                            => ValidateWorkshopOutcome(t, w, v)' = "ok"
                 /\ Cardinality(rotations) = 1
                 /\ \A i \in rotations :
                        /\ sent'[i].workshopId = resp'.workshopId
                        /\ sent'[i].newToken = resp'.newToken
                        /\ sent'[i].to = sseClients
           /\ resp'.op = "validate" =>
                 /\ nextToken' = nextToken
                 /\ qr_tokens' = qr_tokens
                 /\ qrTokens' \subseteq qrTokens
                 /\ rotations = {}]_vars

\* A workshop check-in has rotated the token while a client is subscribed
\* and a second user with a reservation has not checked in yet.
C20_Witness ==
    /\ resp.op = "validateWorkshop" /\ resp.status = "ok"
    /\ sseClients # {}
    /\ Len(sent) = 2
    /\ sent[2].event = "qr_used" /\ sent[2].newToken = resp.newToken
    /\ sent[2].to = sseClients
    /\ \E v \in UserIds :
          /\ v # resp.userId /\ UserExists(v)
          /\ HasReservation(v, resp.workshopId)
          /\ ~HasAttendance(v, resp.workshopId)

\* ============================================================ the events

\* C21: every successful Reserve publishes exactly one reservation event and
\* every successful Cancel exactly one reservation_cancelled event, to the
\* subscribers connected at that time.
C21_LedgerEventsPublished ==
    [][/\ (resp'.op = "reserve" /\ resp'.status = "ok") =>
              /\ Len(sent') = 1
              /\ sent'[1].event = "reservation"
              /\ sent'[1].userId = resp'.userId
              /\ sent'[1].workshopId = resp'.workshopId
              /\ sent'[1].to \subseteq sseClients
       /\ (resp'.op = "cancel" /\ resp'.status = "ok") =>
              /\ Len(sent') = 1
              /\ sent'[1].event = "reservation_cancelled"
              /\ sent'[1].userId = resp'.userId
              /\ sent'[1].workshopId = resp'.workshopId
              /\ sent'[1].to \subseteq sseClients]_vars

\* C22: every subscriber receives the events in publish order: what a step
\* writes to a subscriber is the events of the one check-in that step
\* answered, the attendance event first and the rotation event of a workshop
\* check-in after it, and a step that is no successful check-in writes
\* nothing, so the events of two check-ins are never interleaved.
C22_EventsInPublishOrder ==
    [][\A c \in ClientIds :
          LET d == Delivered(c)'
              checkedIn == /\ resp'.op \in {"validate", "validateWorkshop"}
                           /\ resp'.status = "ok"
          IN  /\ (~checkedIn \/ c \notin sseClients) => d = <<>>
              /\ (checkedIn /\ c \in sseClients) =>
                     /\ Len(d) = IF resp'.op = "validateWorkshop" THEN 2 ELSE 1
                     /\ d[1].event = "attendance"
                     /\ d[1].userId = resp'.userId
                     /\ d[1].workshopId = resp'.workshopId
                     /\ resp'.op = "validateWorkshop" =>
                            /\ d[2].event = "qr_used"
                            /\ d[2].workshopId = resp'.workshopId
                            /\ d[2].newToken = resp'.newToken]_vars

\* The second workshop check-in has written its attendance event and then its
\* rotation event to a subscriber.
C22_Witness ==
    /\ resp.op = "validateWorkshop" /\ resp.status = "ok"
    /\ Cardinality(attendance) = 2
    /\ \E c \in sseClients :
          /\ Len(Delivered(c)) = 2
          /\ Delivered(c)[1].event = "attendance"
          /\ Delivered(c)[2].event = "qr_used"

\* C23: a subscriber that connects after an event was published never
\* receives it: connecting writes no event to the new response, and every
\* event is written only to responses that were in sseClients before the
\* step that published it.
C23_NoDeliveryOfPastEvents ==
    [][/\ \A c \in sseClients' \ sseClients : Delivered(c)' = <<>>
       /\ \A i \in 1..Len(sent') : sent'[i].to \subseteq sseClients
       /\ resp'.op = "events" => sent' = <<>>]_vars

\* A second client has connected after a check-in was published, and has
\* been written nothing.
C23_Witness ==
    /\ resp.op = "events" /\ resp.status = "ok"
    /\ attendance # {}
    /\ Cardinality(sseClients) = 2
    /\ \A c \in sseClients : Delivered(c) = <<>>

\* C24: when the write to one subscriber throws, the event is still written
\* to every other subscriber of that moment and the check-in that published
\* it still answers success with its attendance row committed.
C24_FailedWriteIsIsolated ==
    [][(/\ resp'.op \in {"validate", "validateWorkshop"}
        /\ resp'.status = "ok") =>
            /\ Len(sent') >= 1
            /\ \A i \in 1..Len(sent') : sent'[i].to = sseClients \ broken
            /\ \A c \in sseClients \ broken : Delivered(c)' = sent'
            /\ \A c \in broken : Delivered(c)' = <<>>
            /\ \A u \in UserIds, w \in WorkshopIds :
                   (u = resp'.userId /\ w = resp'.workshopId) =>
                       HasAttendance(u, w)' /\ ~HasAttendance(u, w)]_vars

\* A workshop check-in has succeeded while the write to one subscriber threw
\* and another subscriber received both events.
C24_Witness ==
    /\ resp.op = "validateWorkshop" /\ resp.status = "ok"
    /\ HasAttendance(resp.userId, resp.workshopId)
    /\ \E c \in sseClients, d \in sseClients :
          /\ c \in broken /\ d \notin broken
          /\ Delivered(c) = <<>>
          /\ Len(Delivered(d)) = 2

\* C25: under any interleaving of connecting, closing and publishing, the
\* subscriber set is the set of responses opened and not yet closed (a
\* connect adds exactly its response, a close removes exactly its response,
\* no other step changes the set), every publish reaches exactly the members
\* of the set at that moment, and a closed response is written nothing.
C25_SubscriberSetIsOpenConnections ==
    [][/\ \A c \in ClientIds :
             /\ (resp'.op = "events" /\ Connect(c)) =>
                    sseClients' = sseClients \cup {c}
             /\ (resp'.op = "none" /\ Disconnect(c)) =>
                    /\ sseClients' = sseClients \ {c}
                    /\ Delivered(c)' = <<>>
             /\ c \notin sseClients => Delivered(c)' = <<>>
       /\ (resp'.op \notin {"events", "none"}) => sseClients' = sseClients
       /\ \A i \in 1..Len(sent') : sent'[i].to = sseClients]_vars

\* The second check-in is published to the one client that is still
\* connected after the other one has closed or never opened.
C25_Witness ==
    /\ resp.op = "validate" /\ resp.status = "ok"
    /\ Cardinality(attendance) = 2
    /\ sseClients = {2}
    /\ Len(sent) = 1 /\ sent[1].to = {2}

\* =========================================================== the tokens

\* C26: every token stored by an issuance, user-scoped or workshop-scoped,
\* the rotation of a check-in included, expires between 10,000 ms and
\* 30,000 ms after the moment it was issued.
C26_LifetimeWithinWindow ==
    [][/\ \A e \in qrTokens' \ qrTokens :
             /\ WorkshopTokenMinMs <= e.expiresAt - now
             /\ e.expiresAt - now <= WorkshopTokenMinMs + WorkshopTokenSpanMs
       /\ \A q \in qr_tokens' :
             q.token > nextToken =>
                 /\ WorkshopTokenMinMs <= q.expiresAt - now
                 /\ q.expiresAt - now <= WorkshopTokenMinMs + WorkshopTokenSpanMs]_vars

\* A workshop check-in has rotated the token and the new token drew the
\* longest lifetime, while a user token issued in the same millisecond is
\* stored with its own lifetime.
C26_Witness ==
    /\ resp.op = "validateWorkshop" /\ resp.status = "ok"
    /\ \E q \in qr_tokens :
          /\ q.token = resp.newToken
          /\ q.expiresAt - now = WorkshopTokenMinMs + WorkshopTokenSpanMs - 1
    /\ \E e \in qrTokens : e.expiresAt - now = UserTokenMs

\* C27: a successful issuance of either scope stores the new token with its
\* scope, its expiresAt and, for the workshop scope, used = FALSE, and
\* answers with the token and that same expiresAt.
C27_IssueStoresAndReturnsExpiry ==
    [][/\ (resp'.op = "generate" /\ resp'.status = "ok") =>
              \E e \in qrTokens' \ qrTokens :
                  /\ e.token = resp'.token
                  /\ e.userId = resp'.userId /\ e.workshopId = resp'.workshopId
                  /\ e.expiresAt = resp'.expiresAt
       /\ (resp'.op = "generateWorkshop" /\ resp'.status = "ok") =>
              \E q \in qr_tokens' \ qr_tokens :
                  /\ q.token = resp'.token
                  /\ q.workshopId = resp'.workshopId
                  /\ ~q.used
                  /\ q.expiresAt = resp'.expiresAt]_vars

\* C28: every stored token whose expiresAt has passed, in the in-memory map
\* or in table qr_tokens, is eventually removed from its store by the
\* periodic purge alone; and a purge never turns a check-in that would be
\* rejected into one that is accepted.
C28_ExpiredTokensReclaimed ==
    /\ \A t \in TokenIds :
          (\/ \E e \in qrTokens : e.token = t /\ TokenExpired(e.expiresAt, now)
           \/ \E q \in qr_tokens : q.token = t /\ TokenExpired(q.expiresAt, now))
             ~> (/\ \A e \in qrTokens : e.token # t
                 /\ \A q \in qr_tokens : q.token # t)
    /\ [][Purge =>
             \A t \in TokenIds, w \in WorkshopIds, u \in UserIds :
                 /\ ValidateUserOutcome(t)' = "ok" => ValidateUserOutcome(t) = "ok"
                 /\ ValidateWorkshopOutcome(t, w, u)' = "ok" =>
                        ValidateWorkshopOutcome(t, w, u) = "ok"]_vars

\* ======================================================== the responses

\* C29: every Reserve, Cancel, Issue and check-in request is answered with
\* exactly one response, a success or a failure of a listed kind, also when
\* two requests are handled in the same millisecond: no handler ends by
\* throwing with no response sent.
C29_EveryRequestAnswered ==
    resp.op \in {"reserve", "cancel", "generate", "generateWorkshop",
                 "validate", "validateWorkshop"}
        => resp.status # "threw"

\* ============================================================ the frame

\* C30: a step that is neither a Reserve nor a Cancel (token issuance, a
\* check-in that succeeds or fails, the purge, connecting, closing, a failing
\* write, the clock) leaves every workshop's availableSeats and totalSeats
\* and the set of reservations as they were; a Reserve or a Cancel changes no
\* stored token, no attendance row and no totalSeats, so an attendance row
\* survives the cancellation of its reservation.
C30_LedgerAndTokensAreSeparate ==
    [][/\ \A w \in 1..Len(workshops) :
             workshops'[w].totalSeats = workshops[w].totalSeats
       /\ resp'.op \notin {"reserve", "cancel"} =>
             /\ \A w \in 1..Len(workshops) :
                    workshops'[w].availableSeats = workshops[w].availableSeats
             /\ ReservedPairs' = ReservedPairs
       /\ resp'.op \in {"reserve", "cancel"} =>
             /\ qrTokens' = qrTokens
             /\ qr_tokens' = qr_tokens
             /\ attendance' = attendance
             /\ sseClients' = sseClients]_vars

\* A reservation has been cancelled after its user checked in: the attendance
\* row and the rotated token are still stored.
C30_Witness ==
    /\ resp.op = "cancel" /\ resp.status = "ok"
    /\ HasAttendance(resp.userId, resp.workshopId)
    /\ ~HasReservation(resp.userId, resp.workshopId)
    /\ qr_tokens # {}

\* ================================================== the ledger, once more

\* C31: for every workshop, availableSeats plus the number of reservations
\* stored for it always equals the value it had when the workshop was seeded
\* (8) or created (its totalSeats), also after a Reserve whose insert threw.
C31_SeatsPlusReservationsConstant ==
    \A w \in 1..Len(workshops) :
        workshops[w].availableSeats + Cardinality(ReservationsOf(w))
            = IF w = 1 THEN SeedAvailableSeats ELSE workshops[w].totalSeats

\* A Reserve for a created workshop has just thrown on its insert while the
\* workshop holds the reservation inserted in the same millisecond.
C31_Witness ==
    /\ resp.op = "reserve" /\ resp.status = "threw"
    /\ Len(workshops) = 2
    /\ ReservationsOf(2) # {}
    /\ workshops[2].availableSeats < workshops[2].totalSeats

\* ============================================================ the failures

\* C32: a Reserve or a Cancel that fails leaves every workshop and the
\* reservations as they were; a check-in that fails, for whatever reason,
\* leaves the attendance rows as they were, publishes no event and stores no
\* new token.
C32_FailuresChangeNothing ==
    [][/\ (resp'.op \in {"reserve", "cancel"} /\ resp'.status # "ok") =>
              /\ workshops' = workshops
              /\ reservations' = reservations
       /\ (resp'.op \in {"validate", "validateWorkshop"} /\ resp'.status # "ok") =>
              /\ attendance' = attendance
              /\ accepted' = accepted
              /\ sent' = <<>>
              /\ nextToken' = nextToken
              /\ qrTokens' \subseteq qrTokens
              /\ {q.token : q \in qr_tokens'} \subseteq {q.token : q \in qr_tokens}]_vars

\* A user check-in has thrown on its insert right after another user's
\* check-in of the same millisecond.
C32_Witness ==
    /\ resp.op = "validate" /\ resp.status = "threw"
    /\ Cardinality(attendance) = 1
    /\ sent = <<>>

\* C33: the workshop check-in reports the first failing check in the order
\* unknown user, no reservation, invalid token, used token, expired token,
\* already checked in; a check-in without a reservation or with a used token
\* (expired or not) leaves the stored tokens as they are, and a check-in
\* reported TokenExpired deletes the unused expired token it was given.
C33_FirstFailingCheckReported ==
    /\ [](\A t \in TokenIds, w \in WorkshopIds, u \in UserIds :
            LET o == ValidateWorkshopOutcome(t, w, u)
                found == FindWorkshopToken(t, w)
                known == UserExists(u) /\ HasReservation(u, w)
            IN  /\ ~UserExists(u) => o = "NotFound"
                /\ (UserExists(u) /\ ~HasReservation(u, w)) => o = "NoReservation"
                /\ (known /\ found = {}) => o = "InvalidToken"
                /\ \A q \in found :
                      /\ (known /\ q.used) => o = "AlreadyUsed"
                      /\ (known /\ ~q.used /\ TokenExpired(q.expiresAt, now)) =>
                             o = "TokenExpired"
                      /\ (known /\ ~q.used /\ ~TokenExpired(q.expiresAt, now)
                            /\ HasAttendance(u, w)) => o = "AlreadyCheckedIn")
    /\ [][resp'.op = "validateWorkshop" =>
             /\ resp'.status \in {"NotFound", "NoReservation", "InvalidToken",
                                  "AlreadyUsed", "AlreadyCheckedIn"} =>
                    qr_tokens' = qr_tokens
             /\ resp'.status = "AlreadyUsed" => \E q \in qr_tokens : q.used
             /\ resp'.status = "TokenExpired" =>
                    \E q \in qr_tokens :
                        /\ ~q.used /\ TokenExpired(q.expiresAt, now)
                        /\ qr_tokens' = qr_tokens \ {q}]_vars

\* A check-in has been refused AlreadyUsed while every used token of the
\* store is also expired, and that token is still stored.
C33_Witness ==
    /\ resp.op = "validateWorkshop" /\ resp.status = "AlreadyUsed"
    /\ \E q \in qr_tokens : q.used
    /\ \A q \in qr_tokens : q.used => TokenExpired(q.expiresAt, now)

\* C34: when several failure conditions hold at once, Reserve answers the
\* first in the order NotFound, Expired, Full, AlreadyReserved: a user who
\* already holds a reservation of a workshop without free seats gets Full,
\* and a request on an expired workshop without free seats gets Expired.
C34_ReserveReportsFirstFailure ==
    [][\A u \in UserIds, w \in WorkshopIds :
          (resp'.op = "reserve" /\ Reserve(u, w)) =>
              LET found == UserExists(u) /\ WorkshopExists(w)
              IN  /\ ~found => resp'.status = "NotFound"
                  /\ (found /\ IsExpired(workshops[w])) => resp'.status = "Expired"
                  /\ (found /\ ~IsExpired(workshops[w]) /\ IsFull(workshops[w])) =>
                         resp'.status = "Full"
                  /\ (found /\ ~IsExpired(workshops[w]) /\ ~IsFull(workshops[w])
                        /\ HasReservation(u, w)) => resp'.status = "AlreadyReserved"]_vars

\* A Reserve has been refused Full while every user already holds a
\* reservation of every workshop without free seats.
C34_Witness ==
    /\ resp.op = "reserve" /\ resp.status = "Full"
    /\ nUsers = MaxUsers
    /\ \E w \in 1..Len(workshops) : IsFull(workshops[w])
    /\ \A w \in 1..Len(workshops) :
          IsFull(workshops[w]) =>
              /\ ~IsExpired(workshops[w])
              /\ \A u \in UserIds : HasReservation(u, w)

\* C35: token removal never touches a live token of another workshop or
\* user: the purge deletes exactly the user tokens with expiresAt < now and
\* no row of qr_tokens, and an issuance for workshop W deletes exactly the
\* rows of W and the rows of any workshop with expiresAt < now, keeping every
\* other row and every user token as it is.
C35_RemovalSparesLiveTokens ==
    [][/\ Purge =>
             /\ qrTokens' = {d \in qrTokens : ~(d.expiresAt < now)}
             /\ qr_tokens' = qr_tokens
       /\ (resp'.op = "generateWorkshop" /\ resp'.status = "ok") =>
             /\ qrTokens' = qrTokens
             /\ \A q \in qr_tokens :
                    q \in qr_tokens' <=>
                        (q.workshopId # resp'.workshopId /\ ~(q.expiresAt < now))
             /\ \A q \in qr_tokens' \ qr_tokens : q.token = resp'.token]_vars

\* A token has been issued for one workshop while an unexpired token of the
\* other workshop and a user token stay stored.
C35_Witness ==
    /\ resp.op = "generateWorkshop" /\ resp.status = "ok"
    /\ \E q \in qr_tokens :
          /\ q.workshopId # resp.workshopId
          /\ ~(q.expiresAt < now)
    /\ qrTokens # {}

\* C36: /qr/generate for a pair without a reservation answers "No
\* reservation found" and stores nothing; a successful /qr/generate keeps
\* every earlier token, so several unexpired tokens of one pair coexist; and
\* once one token of a pair has checked in, no other token of that pair is
\* ever accepted.
C36_UserTokensCoexistOneCheckIn ==
    /\ [][/\ \A u \in UserIds :
                (resp'.op = "generate" /\ GenerateUser(u, 1)) =>
                    IF HasReservation(u, 1)
                    THEN /\ resp'.status = "ok"
                         /\ qrTokens \subseteq qrTokens'
                         /\ Cardinality(qrTokens') = Cardinality(qrTokens) + 1
                    ELSE /\ resp'.status = "NoReservation"
                         /\ qrTokens' = qrTokens
                         /\ nextToken' = nextToken
          /\ (resp'.op = "validate" /\ resp'.status = "ok") =>
                \A u \in UserIds, w \in WorkshopIds :
                    (u = resp'.userId /\ w = resp'.workshopId) => ~HasAttendance(u, w)
          /\ {<<a.userId, a.workshopId>> : a \in attendance}
                \subseteq {<<a.userId, a.workshopId>> : a \in attendance'}]_vars
    /\ [](\A d \in qrTokens :
             HasAttendance(d.userId, d.workshopId) => ValidateUserOutcome(d.token) # "ok")

\* A user token has checked its pair in while another unexpired token of the
\* same pair is still stored.
C36_Witness ==
    /\ resp.op = "validate" /\ resp.status = "ok"
    /\ \E d \in qrTokens :
          /\ d.userId = resp.userId /\ d.workshopId = resp.workshopId
          /\ d.token # resp.token
          /\ ~TokenExpired(d.expiresAt, now)


\* C37: after a successful workshop-scoped check-in every AdminQRDisplay that is
\* open for the workshop eventually shows, without a click on Refresh, a token
\* that /qr/validate-workshop accepts, however many displays are open, whatever
\* Refresh and Copy Data are used and in whatever order the generate requests
\* are served.  The code violates this: every POST /qr/generate-workshop
\* deletes the workshop's other tokens, so the request of a second display or
\* of Copy Data kills the token a display is about to show or shows.
C37_DisplaysEventuallyShowLiveToken ==
    \A d \in DisplayIds :
        (adminQR[d].open /\ resp.op = "validateWorkshop" /\ resp.status = "ok")
            ~> (DisplayShowsLive(d) \/ DisplayStarved(d))


\* C38: while UserQRCode is mounted for a user who holds the reservation and
\* the shown token has at most one second left (or has expired), the timer
\* requests a new token and, the server responding, the component comes to
\* show a token with a later expiresAt.
C38_ShownTokenReplacedBeforeStale ==
    \A e \in UserQRExpiries :
        (/\ userQR.mounted /\ HasReservation(1, 1)
         /\ userQR.expiresAt = e /\ e - now <= 1000)
            ~> (userQR.expiresAt > e \/ UserQRStarved)

\* C38 witness: the component shows a token it requested after the first one
\* had run down, and that token expires later than the first and is not expired.
C38_Witness ==
    /\ userQR.mounted /\ HasReservation(1, 1)
    /\ userQR.shown >= 2
    /\ userQR.expiresAt > UserTokenMs
    /\ ~TokenExpired(userQR.expiresAt, now)
    /\ ~UserQRStarved

====
